---- MODULE Spec2Model ----
(***************************************************************************)
(* RSA key import (src/src/rsa/import_key.ts): format detection, the JWK   *)
(* importer, the PEM importers and the rsa_import_key facade.              *)
(*                                                                         *)
(* A JavaScript string is a sequence of one-character strings.  A          *)
(* JavaScript value is a record tagged by its field t.  A call's outcome   *)
(* is Return(v) or Throw(m), m the message of the TypeError thrown.        *)
(***************************************************************************)
EXTENDS Integers, Sequences, FiniteSets, TLC

(* ----------------------------- bounds ---------------------------------- *)

\* longest base64url text of the JWK field n that the inputs enumerate
MaxFieldLen == 2
\* largest integer placed in the DER bodies the inputs enumerate
MaxInt == 2
\* longest PKCS#1-style integer sequence the inputs enumerate
MaxElems == 10
\* width of the base64 body lines of the PEM texts the inputs enumerate
LineWidth == 16

(* ------------------------- JavaScript values --------------------------- *)

Undefined == [t |-> "undefined"]
Null == [t |-> "null"]
JsStr(s) == [t |-> "string", s |-> s]
JsInt(i) == [t |-> "bigint", i |-> i]
JsNum(i) == [t |-> "number", i |-> i]
JsArr(a) == [t |-> "array", a |-> a]

Return(v) == [k |-> "return", v |-> v]
Throw(m) == [k |-> "throw", m |-> m]

\* typeof v
TypeOf(v) ==
  IF v.t \in {"array", "null", "object"} THEN "object" ELSE v.t

\* the truthiness test of `!x` and `x ? a : b` on a string or undefined
Truthy(v) ==
  CASE v.t = "undefined" -> FALSE
    [] v.t = "null" -> FALSE
    [] v.t = "string" -> Len(v.s) > 0
    [] v.t = "bigint" -> v.i # 0
    [] v.t = "number" -> v.i # 0
    [] OTHER -> TRUE

\* v[i]: property access by index; reading a property of undefined or null
\* throws the engine's TypeError
Index(v, i) ==
  CASE v.t \in {"undefined", "null"} -> Throw("TypeError")
    [] v.t = "array" -> Return(IF i < Len(v.a) THEN v.a[i + 1] ELSE Undefined)
    [] v.t = "string" ->
         Return(IF i < Len(v.s) THEN JsStr(<<v.s[i + 1]>>) ELSE Undefined)
    [] OTHER -> Return(Undefined)

\* String.prototype.substr(start, length) for start >= 0
Substr(s, start, length) ==
  IF start >= Len(s) \/ length <= 0
    THEN <<>>
    ELSE SubSeq(s, start + 1, IF start + length > Len(s) THEN Len(s) ELSE start + length)

\* String.prototype.indexOf(t): the first index at which t occurs, or -1
IndexOf(s, sub) ==
  LET hits == {i \in 0..(Len(s) - Len(sub)) : SubSeq(s, i + 1, i + Len(sub)) = sub}
  IN IF hits = {} THEN -1 ELSE CHOOSE i \in hits : \A j \in hits : i <= j

(* ------------------------------ literals ------------------------------- *)

NL == "\n"
Dashes == <<"-","-","-","-","-">>
BeginRsaPrivate ==
  <<"-","-","-","-","-","B","E","G","I","N"," ","R","S","A"," ","P","R","I","V","A","T","E"," ","K","E","Y","-","-","-","-","-">>
EndRsaPrivate ==
  <<"-","-","-","-","-","E","N","D"," ","R","S","A"," ","P","R","I","V","A","T","E"," ","K","E","Y","-","-","-","-","-">>
BeginPublic ==
  <<"-","-","-","-","-","B","E","G","I","N"," ","P","U","B","L","I","C"," ","K","E","Y","-","-","-","-","-">>
EndPublic ==
  <<"-","-","-","-","-","E","N","D"," ","P","U","B","L","I","C"," ","K","E","Y","-","-","-","-","-">>
BeginPkcs8 ==
  <<"-","-","-","-","-","B","E","G","I","N"," ","P","R","I","V","A","T","E"," ","K","E","Y","-","-","-","-","-">>
EndPkcs8 ==
  <<"-","-","-","-","-","E","N","D"," ","P","R","I","V","A","T","E"," ","K","E","Y","-","-","-","-","-">>

(* ------------- collaborators: base64, OS2IP, key size, BER ------------- *)

AlphaNum ==
  <<"A","B","C","D","E","F","G","H","I","J","K","L","M","N","O","P","Q","R","S","T","U","V","W","X","Y","Z","a","b","c","d","e","f","g","h","i","j","k","l","m","n","o","p","q","r","s","t","u","v","w","x","y","z","0","1","2","3","4","5","6","7","8","9">>
\* RFC 4648 section 4 and section 5 alphabets
Base64Alphabet == AlphaNum \o <<"+", "/">>
Base64UrlAlphabet == AlphaNum \o <<"-", "_">>

SextetOf(alphabet, c) == (CHOOSE i \in 1..64 : alphabet[i] = c) - 1

RECURSIVE SextetsToBytes(_)
\* four sextets make three octets; a trailing group of two or three makes one or two
SextetsToBytes(v) ==
  IF Len(v) < 2 THEN <<>>
  ELSE LET b1 == v[1] * 4 + (v[2] \div 16)
       IN IF Len(v) = 2 THEN <<b1>>
          ELSE LET b2 == (v[2] % 16) * 16 + (v[3] \div 4)
               IN IF Len(v) = 3 THEN <<b1, b2>>
                  ELSE <<b1, b2, (v[3] % 4) * 64 + v[4]>>
                         \o SextetsToBytes(SubSeq(v, 5, Len(v)))

RECURSIVE Without(_, _)
\* s with every occurrence of the character c removed
Without(s, c) ==
  IF s = <<>> THEN <<>>
  ELSE (IF Head(s) = c THEN <<>> ELSE <<Head(s)>>) \o Without(Tail(s), c)

\* s without its (at most two) trailing "=" when its length is a multiple of four
Unpadded(s) ==
  LET n == Len(s)
  IN IF n % 4 # 0 \/ n = 0 \/ s[n] # "=" THEN s
     ELSE IF s[n - 1] = "=" THEN SubSeq(s, 1, n - 2) ELSE SubSeq(s, 1, n - 1)

DecodeWith(alphabet, s) ==
  IF Len(s) % 4 = 1 \/ \E i \in 1..Len(s) : \A j \in 1..64 : alphabet[j] # s[i]
    THEN Throw("InvalidCharacterError")
    ELSE Return(SextetsToBytes([i \in 1..Len(s) |-> SextetOf(alphabet, s[i])]))

\* encode.base64url(text): the octets of a base64url text
decode_base64url(s) == DecodeWith(Base64UrlAlphabet, Unpadded(s))

\* base64_to_binary(text): the octets of a base64 text; line breaks are skipped
base64_to_binary(s) == DecodeWith(Base64Alphabet, Unpadded(Without(s, NL)))

RECURSIVE os2ip(_)
\* OS2IP (RFC 8017 section 4.2): big-endian octets to a non-negative integer
os2ip(bytes) ==
  IF bytes = <<>> THEN 0
  ELSE os2ip(SubSeq(bytes, 1, Len(bytes) - 1)) * 256 + bytes[Len(bytes)]

RECURSIVE BitLength(_)
BitLength(n) == IF n <= 0 THEN 0 ELSE 1 + BitLength(n \div 2)

\* get_key_size(n): the bit-length of an integer; no size for anything else
get_key_size(v) ==
  IF v.t = "bigint" THEN Return(JsNum(BitLength(v.i))) ELSE Throw("TypeError")

RECURSIVE BerNode(_, _)
RECURSIVE BerList(_)
\* one TLV at position pos of bytes: Return of [node, next], or a failure
BerNode(bytes, pos) ==
  IF pos + 1 > Len(bytes) THEN Throw("Invalid BER")
  ELSE
    LET tag == bytes[pos]
        lb == bytes[pos + 1]
        k == IF lb < 128 THEN 0 ELSE lb - 128
        start == pos + 2 + k
    IN IF start - 1 > Len(bytes) THEN Throw("Invalid BER")
       ELSE
         LET len == IF lb < 128 THEN lb ELSE os2ip(SubSeq(bytes, pos + 2, pos + 1 + k))
             content == SubSeq(bytes, start, start + len - 1)
             inner == IF tag = 48 THEN BerList(content)
                      ELSE IF tag = 3 /\ len > 0 THEN BerList(Tail(content))
                      ELSE Throw("Invalid BER")
         IN IF start + len - 1 > Len(bytes) THEN Throw("Invalid BER")
            ELSE CASE tag = 2 ->
                        Return([node |-> [t |-> "int", i |-> os2ip(content)], next |-> start + len])
                   [] tag = 5 -> Return([node |-> [t |-> "nul"], next |-> start + len])
                   [] tag = 6 -> Return([node |-> [t |-> "oid", b |-> content], next |-> start + len])
                   [] tag \in {3, 48} ->
                        IF inner.k = "throw" THEN inner
                        ELSE Return([node |-> [t |-> (IF tag = 48 THEN "seq" ELSE "bits"),
                                               a |-> inner.v],
                                     next |-> start + len])
                   [] OTHER -> Throw("Invalid BER")

\* the TLVs that fill bytes exactly
BerList(bytes) ==
  IF bytes = <<>> THEN Return(<<>>)
  ELSE LET first == BerNode(bytes, 1)
       IN IF first.k = "throw" THEN first
          ELSE LET rest == BerList(SubSeq(bytes, first.v.next, Len(bytes)))
               IN IF rest.k = "throw" THEN rest
                  ELSE Return(<<first.v.node>> \o rest.v)

\* ber_decode(bytes): the node tree of the first TLV
ber_decode(bytes) ==
  LET r == BerNode(bytes, 1)
  IN IF r.k = "throw" THEN r ELSE Return(r.v.node)

RECURSIVE Decimal(_)
Decimal(n) ==
  IF n < 10 THEN <<AlphaNum[53 + n]>> ELSE Decimal(n \div 10) \o <<AlphaNum[53 + (n % 10)]>>

RECURSIVE OidArcs(_)
OidArcs(b) ==
  IF b = <<>> THEN <<>> ELSE <<".">> \o Decimal(Head(b)) \o OidArcs(Tail(b))

\* dotted text of an object identifier whose arcs are one octet each
OidString(b) ==
  IF b = <<>> THEN <<>>
  ELSE Decimal(b[1] \div 40) \o <<".">> \o Decimal(b[1] % 40) \o OidArcs(Tail(b))

RECURSIVE ber_simple(_)
\* ber_simple(node): integers, and arrays for SEQUENCE and BIT STRING contents
ber_simple(node) ==
  CASE node.t = "int" -> JsInt(node.i)
    [] node.t = "nul" -> Null
    [] node.t = "oid" -> JsStr(OidString(node.b))
    [] OTHER -> JsArr([i \in 1..Len(node.a) |-> ber_simple(node.a[i])])

\* ber_simple(ber_decode(base64_to_binary(text))), the first failure propagated
DecodePemBody(text) ==
  LET bin == base64_to_binary(text)
  IN IF bin.k = "throw" THEN bin
     ELSE LET node == ber_decode(bin.v)
          IN IF node.k = "throw" THEN node ELSE Return(ber_simple(node.v))

(* ------------------------- import_key.ts ------------------------------- *)

\* detect_format without the test of kty: every object is a JWK
detect_format_AnyObject(key) ==
  IF TypeOf(key) = "object"
    THEN Return("jwk")
  ELSE IF TypeOf(key) = "string" /\ Substr(key.s, 0, Len(Dashes)) = Dashes
    THEN Return("pem")
  ELSE Throw("Unsupported key format")

\* lines 15-23
detect_format(key) ==
  IF TypeOf(key) = "object" /\ key.kty = JsStr(<<"R", "S", "A">>)
    THEN Return("jwk")
  ELSE IF TypeOf(key) = "string" /\ Substr(key.s, 0, Len(Dashes)) = Dashes
    THEN Return("pem")
  ELSE Throw("Unsupported key format")

\* os2ip(encode.base64url(text))
Os2ipOfBase64Url(field) ==
  LET bytes == decode_base64url(field.s)
  IN IF bytes.k = "throw" THEN bytes ELSE Return(JsInt(os2ip(bytes.v)))

\* field ? os2ip(encode.base64url(field)) : undefined
OptionalField(field) ==
  IF Truthy(field) THEN Os2ipOfBase64Url(field) ELSE Return(Undefined)

\* the first exception among outcomes evaluated in order, else the record built
\* from their values
ReturnRecord(names, outcomes) ==
  IF \E i \in 1..Len(outcomes) : outcomes[i].k = "throw"
    THEN outcomes[CHOOSE i \in 1..Len(outcomes) :
                    /\ outcomes[i].k = "throw"
                    /\ \A j \in 1..(i - 1) : outcomes[j].k = "return"]
    ELSE Return([f \in {names[i] : i \in 1..Len(names)} |->
                   outcomes[CHOOSE i \in 1..Len(names) : names[i] = f].v])

\* lines 33-47
ImportJwkObject(key) ==
  IF ~Truthy(key.n) THEN Throw("RSA key requires n")
  ELSE
    LET n == Os2ipOfBase64Url(key.n)
    IN IF n.k = "throw" THEN n
       ELSE ReturnRecord(
              <<"e", "n", "d", "p", "q", "dp", "dq", "qi", "length">>,
              << OptionalField(key.e), Os2ipOfBase64Url(key.n), OptionalField(key.d),
                 OptionalField(key.p), OptionalField(key.q), OptionalField(key.dp),
                 OptionalField(key.dq), OptionalField(key.qi), get_key_size(n.v) >>)

\* rsa_import_jwk without line 32: a string has no property n
rsa_import_jwk_NoTypeCheck(key) ==
  IF TypeOf(key) # "object" THEN Throw("RSA key requires n") ELSE ImportJwkObject(key)

\* lines 31-48
rsa_import_jwk(key) ==
  IF TypeOf(key) # "object" THEN Throw("Invalid JWK format") ELSE ImportJwkObject(key)

\* line 57 with the length one too long
TrimPrivate_OffByOne(key) == Substr(key.s, 31, Len(key.s) - 60)

\* line 57
TrimPrivate(key) == Substr(key.s, 31, Len(key.s) - 61)

\* line 82
TrimPublic(key) == Substr(key.s, 26, Len(key.s) - 51)

\* lines 62-72: the record read off the simplified structure by position
PrivateRecord(parseKey) ==
  LET at(i) == Index(parseKey, i)
      n == at(1)
  IN ReturnRecord(
       <<"n", "d", "e", "p", "q", "dp", "dq", "qi", "length">>,
       << n, at(3), at(2), at(4), at(5), at(6), at(7), at(8),
          IF n.k = "throw" THEN n ELSE get_key_size(n.v) >>)

\* parseKey[1][0][i]
PublicSlot(parseKey, i) ==
  LET a == Index(parseKey, 1)
      b == IF a.k = "throw" THEN a ELSE Index(a.v, 0)
  IN IF b.k = "throw" THEN b ELSE Index(b.v, i)

\* lines 87-91 with n and e read from each other's slot
PublicRecord_Swapped(parseKey) ==
  LET n == PublicSlot(parseKey, 1)
      absent == Return(Undefined)
  IN ReturnRecord(
       <<"length", "n", "e", "d", "p", "q", "dp", "dq", "qi">>,
       << IF n.k = "throw" THEN n ELSE get_key_size(n.v), n, PublicSlot(parseKey, 0),
          absent, absent, absent, absent, absent, absent >>)

\* lines 87-91: the record read off the simplified structure; d and the CRT
\* fields are not set
PublicRecord(parseKey) ==
  LET n == PublicSlot(parseKey, 0)
      absent == Return(Undefined)
  IN ReturnRecord(
       <<"length", "n", "e", "d", "p", "q", "dp", "dq", "qi">>,
       << IF n.k = "throw" THEN n ELSE get_key_size(n.v), n, PublicSlot(parseKey, 1),
          absent, absent, absent, absent, absent, absent >>)

\* lines 56-73
rsa_import_pem_private(key) ==
  LET parseKey == DecodePemBody(TrimPrivate(key))
  IN IF parseKey.k = "throw" THEN parseKey ELSE PrivateRecord(parseKey.v)

\* lines 81-92
rsa_import_pem_public(key) ==
  LET parseKey == DecodePemBody(TrimPublic(key))
  IN IF parseKey.k = "throw" THEN parseKey ELSE PublicRecord(parseKey.v)

\* lines 101-114 with the headers looked for anywhere in the text
PemPath_Contains(key) ==
  IF TypeOf(key) # "string" THEN Throw("PEM key must be string")
  ELSE IF IndexOf(key.s, BeginRsaPrivate) # -1 THEN Return("rsa_import_pem_private")
  ELSE IF IndexOf(key.s, BeginPublic) # -1 THEN Return("rsa_import_pem_public")
  ELSE Throw("Unsupported key format")

\* lines 101-114: the path rsa_import_pem takes, or the exception it throws
PemPath(key) ==
  IF TypeOf(key) # "string" THEN Throw("PEM key must be string")
  ELSE IF IndexOf(key.s, BeginRsaPrivate) = 0 THEN Return("rsa_import_pem_private")
  ELSE IF IndexOf(key.s, BeginPublic) = 0 THEN Return("rsa_import_pem_public")
  ELSE Throw("Unsupported key format")

\* lines 100-115
rsa_import_pem(key) ==
  LET path == PemPath(key)
  IN IF path.k = "throw" THEN path
     ELSE IF path.v = "rsa_import_pem_private" THEN rsa_import_pem_private(key)
     ELSE rsa_import_pem_public(key)

\* line 127 with detection left out: "auto" is taken to be a JWK
ResolveFormat_AlwaysJwk(key, format) ==
  IF format = "auto" THEN Return("jwk") ELSE Return(format)

\* line 127
ResolveFormat(key, format) ==
  IF format = "auto" THEN detect_format(key) ELSE Return(format)

\* lines 123-133
rsa_import_key(key, format) ==
  LET finalFormat == ResolveFormat(key, format)
  IN IF finalFormat.k = "throw" THEN finalFormat
     ELSE IF finalFormat.v = "jwk" THEN rsa_import_jwk(key)
     ELSE IF finalFormat.v = "pem" THEN rsa_import_pem(key)
     ELSE Throw("Unsupported key format")

\* the error kind of the design's taxonomy that an exception stands for
ErrorKind(m) ==
  CASE m \in {"Unsupported key format", "PEM key must be string"} -> "UnsupportedFormat"
    [] m \in {"Invalid JWK format", "RSA key requires n"} -> "MissingField"
    [] m = "TypeError" -> "MalformedStructure"
    [] OTHER -> "DecodeFailure"

\* the decoders a PEM path invokes on the text it cut out, in order
DecoderCalls(text) ==
  LET bin == base64_to_binary(text)
  IN <<"base64_to_binary">>
       \o (IF bin.k = "throw" THEN <<>>
           ELSE <<"ber_decode">>
                  \o (IF ber_decode(bin.v).k = "throw" THEN <<>> ELSE <<"ber_simple">>))

(* ------------------------------ inputs --------------------------------- *)

IntNode(i) == [t |-> "int", i |-> i]
SeqNode(a) == [t |-> "seq", a |-> a]
BitsNode(a) == [t |-> "bits", a |-> a]
NulNode == [t |-> "nul"]
\* an AlgorithmIdentifier: SEQUENCE { OBJECT IDENTIFIER 1.2, NULL }
AlgId == SeqNode(<<[t |-> "oid", b |-> <<42>>], NulNode>>)

RECURSIVE Flatten(_)
Flatten(ss) == IF ss = <<>> THEN <<>> ELSE Head(ss) \o Flatten(Tail(ss))

RECURSIVE DerEncode(_)
\* the DER octets of a node tree (contents shorter than 128 octets)
DerEncode(node) ==
  CASE node.t = "int" -> <<2, 1, node.i>>
    [] node.t = "nul" -> <<5, 0>>
    [] node.t = "oid" -> <<6, Len(node.b)>> \o node.b
    [] OTHER ->
         LET content == Flatten([i \in 1..Len(node.a) |-> DerEncode(node.a[i])])
         IN IF node.t = "seq" THEN <<48, Len(content)>> \o content
            ELSE <<3, Len(content) + 1, 0>> \o content

RECURSIVE Base64Encode(_)
\* the padded base64 text of octets
Base64Encode(b) ==
  LET c(i) == Base64Alphabet[i + 1]
  IN IF b = <<>> THEN <<>>
     ELSE IF Len(b) = 1
       THEN <<c(b[1] \div 4), c((b[1] % 4) * 16), "=", "=">>
     ELSE IF Len(b) = 2
       THEN <<c(b[1] \div 4), c((b[1] % 4) * 16 + (b[2] \div 16)), c((b[2] % 16) * 4), "=">>
     ELSE <<c(b[1] \div 4), c((b[1] % 4) * 16 + (b[2] \div 16)),
            c((b[2] % 16) * 4 + (b[3] \div 64)), c(b[3] % 64)>>
            \o Base64Encode(SubSeq(b, 4, Len(b)))

RECURSIVE Wrap(_)
\* text cut into lines of LineWidth characters, each ended by one newline
Wrap(text) ==
  IF text = <<>> THEN <<>>
  ELSE IF Len(text) <= LineWidth THEN text \o <<NL>>
  ELSE SubSeq(text, 1, LineWidth) \o <<NL>> \o Wrap(SubSeq(text, LineWidth + 1, Len(text)))

\* a PEM text: header line, wrapped base64 of the DER octets, footer line
Armor(begin, end, node, finalNewline) ==
  begin \o <<NL>> \o Wrap(Base64Encode(DerEncode(node))) \o end
    \o (IF finalNewline THEN <<NL>> ELSE <<>>)

\* [version, n, e, d, p, q, dp, dq, qi] cut to len integers, n = first
Pkcs1Ints(len, first) ==
  SeqNode([i \in 1..len |-> IntNode(IF i = 1 THEN 0 ELSE first + i - 2)])

\* SubjectPublicKeyInfo-shaped tree around the BIT STRING contents inner
Spki(inner) == SeqNode(<<AlgId, BitsNode(inner)>>)

PrivateTrees ==
  {Pkcs1Ints(len, first) : len \in 0..MaxElems, first \in 0..MaxInt}
    \cup {SeqNode([Pkcs1Ints(9, 1).a EXCEPT ![i] = x]) :
            i \in 2..9, x \in {NulNode, SeqNode(<<IntNode(1)>>)}}

PublicTrees ==
  {Spki(<<SeqNode(<<IntNode(n), IntNode(e)>>)>>) : n \in 0..MaxInt, e \in 0..MaxInt}
    \cup {Spki(<<SeqNode(<<IntNode(2)>>)>>),
          Spki(<<SeqNode(<<IntNode(2), IntNode(1), IntNode(1)>>)>>),
          Spki(<<SeqNode(<<IntNode(2), NulNode>>)>>),
          Spki(<<SeqNode(<<NulNode, IntNode(1)>>)>>),
          Spki(<<SeqNode(<<IntNode(2), IntNode(1)>>), SeqNode(<<IntNode(1)>>)>>),
          Spki(<<>>),
          Spki(<<IntNode(2), IntNode(1)>>),
          SeqNode(<<AlgId, SeqNode(<<SeqNode(<<IntNode(2), IntNode(1)>>)>>)>>),
          SeqNode(<<AlgId, IntNode(2)>>),
          SeqNode(<<AlgId>>),
          SeqNode(<<IntNode(0), BitsNode(<<SeqNode(<<IntNode(2), IntNode(1)>>)>>)>>),
          IntNode(2), NulNode, [t |-> "oid", b |-> <<42>>]}

Trees == PrivateTrees \cup PublicTrees

ArmoredTexts ==
  {Armor(m[1], m[2], node, nl) :
     m \in {<<BeginRsaPrivate, EndRsaPrivate>>, <<BeginPublic, EndPublic>>,
            <<BeginPkcs8, EndPkcs8>>},
     node \in Trees, nl \in BOOLEAN}

OtherTexts ==
  { <<>>, Dashes, <<"-", "-", "-", "-">>, <<"R", "S", "A">>, BeginRsaPrivate, BeginPublic,
    <<" ">> \o Armor(BeginPublic, EndPublic, Spki(<<SeqNode(<<IntNode(2), IntNode(1)>>)>>), TRUE),
    BeginRsaPrivate \o <<NL>> \o <<"!", "!", "!", "!">> \o <<NL>> \o EndRsaPrivate,
    BeginPublic \o <<NL>> \o <<"A", "g", "E", "B">> \o <<NL>> \o EndPublic }

StringKeys == {JsStr(s) : s \in ArmoredTexts \cup OtherTexts}

RECURSIVE TextsUpTo(_, _)
\* the texts of at most n characters over chars
TextsUpTo(chars, n) ==
  IF n = 0 THEN {<<>>}
  ELSE LET shorter == TextsUpTo(chars, n - 1)
       IN shorter \cup {Append(s, c) : s \in shorter, c \in chars}

JwkModulusTexts == TextsUpTo({"A", "Q", "!"}, MaxFieldLen)
JwkExponentTexts == {<<>>, <<"A", "Q", "A", "B">>, <<"!">>}
JwkPrivateTexts == {<<"A", "w">>}
OptionalText(texts) == {Undefined} \cup {JsStr(s) : s \in texts}

JwkKeys ==
  [ t : {"object"},
    kty : OptionalText({<<"R", "S", "A">>, <<"E", "C">>}),
    n : OptionalText(JwkModulusTexts),
    e : OptionalText(JwkExponentTexts),
    d : OptionalText(JwkPrivateTexts),
    p : OptionalText(JwkPrivateTexts),
    q : OptionalText(JwkPrivateTexts),
    dp : OptionalText(JwkPrivateTexts),
    dq : OptionalText(JwkPrivateTexts),
    qi : OptionalText(JwkPrivateTexts) ]

\* the declared parameter types of rsa_import_key (lines 7, 124-125)
Keys == StringKeys \cup JwkKeys
Formats == {"auto", "jwk", "pem"}

(* --------------------------- state machine ----------------------------- *)

VARIABLES
  key,         \* the key argument of the call
  format,      \* the format argument of the call
  pc,          \* the function about to run, or "done"
  finalFormat, \* line 127's finalFormat, "" before it is set
  trimmedKey,  \* the text a PEM path cut out and handed to base64_to_binary
  calls,       \* the functions invoked so far, in order
  result       \* the call's outcome once pc = "done"

vars == <<key, format, pc, finalFormat, trimmedKey, calls, result>>

Pending == [k |-> "pending"]

Init ==
  /\ key \in Keys
  /\ format \in Formats
  /\ pc = "rsa_import_key"
  /\ finalFormat = ""
  /\ trimmedKey = <<>>
  /\ calls = <<"rsa_import_key">>
  /\ result = Pending

\* line 127, up to the call of detect_format
RsaImportKey ==
  /\ pc = "rsa_import_key"
  /\ IF format = "auto"
       THEN /\ pc' = "detect_format"
            /\ calls' = Append(calls, "detect_format")
            /\ UNCHANGED finalFormat
       ELSE /\ pc' = "dispatch"
            /\ finalFormat' = ResolveFormat(key, format).v
            /\ UNCHANGED calls
  /\ UNCHANGED <<key, format, trimmedKey, result>>

\* lines 15-23, returning into line 127 or throwing out of rsa_import_key
DetectFormat ==
  /\ pc = "detect_format"
  /\ LET r == ResolveFormat(key, format)
     IN IF r.k = "throw"
          THEN /\ result' = r
               /\ pc' = "done"
               /\ UNCHANGED finalFormat
          ELSE /\ finalFormat' = r.v
               /\ pc' = "dispatch"
               /\ UNCHANGED result
  /\ UNCHANGED <<key, format, trimmedKey, calls>>

\* lines 129-132
Dispatch ==
  /\ pc = "dispatch"
  /\ IF finalFormat \in {"jwk", "pem"}
       THEN /\ pc' = (IF finalFormat = "jwk" THEN "rsa_import_jwk" ELSE "rsa_import_pem")
            /\ calls' = Append(calls, pc')
            /\ UNCHANGED result
       ELSE /\ pc' = "done"
            /\ result' = Throw("Unsupported key format")
            /\ UNCHANGED calls
  /\ UNCHANGED <<key, format, finalFormat, trimmedKey>>

\* lines 31-48
RsaImportJwk ==
  /\ pc = "rsa_import_jwk"
  /\ result' = rsa_import_jwk(key)
  /\ pc' = "done"
  /\ UNCHANGED <<key, format, finalFormat, trimmedKey, calls>>

\* lines 100-115, up to the call of a path
RsaImportPem ==
  /\ pc = "rsa_import_pem"
  /\ LET path == PemPath(key)
     IN IF path.k = "throw"
          THEN /\ result' = path
               /\ pc' = "done"
               /\ UNCHANGED calls
          ELSE /\ pc' = path.v
               /\ calls' = Append(calls, path.v)
               /\ UNCHANGED result
  /\ UNCHANGED <<key, format, finalFormat, trimmedKey>>

\* lines 56-73
RsaImportPemPrivate ==
  /\ pc = "rsa_import_pem_private"
  /\ trimmedKey' = TrimPrivate(key)
  /\ calls' = calls \o DecoderCalls(trimmedKey')
  /\ result' = rsa_import_pem_private(key)
  /\ pc' = "done"
  /\ UNCHANGED <<key, format, finalFormat>>

\* lines 81-92
RsaImportPemPublic ==
  /\ pc = "rsa_import_pem_public"
  /\ trimmedKey' = TrimPublic(key)
  /\ calls' = calls \o DecoderCalls(trimmedKey')
  /\ result' = rsa_import_pem_public(key)
  /\ pc' = "done"
  /\ UNCHANGED <<key, format, finalFormat>>

Next ==
  \/ RsaImportKey
  \/ DetectFormat
  \/ Dispatch
  \/ RsaImportJwk
  \/ RsaImportPem
  \/ RsaImportPemPrivate
  \/ RsaImportPemPublic

Spec == Init /\ [][Next]_vars

\* the state machine computes what the functions compute
MachineAgrees == pc = "done" => result = rsa_import_key(key, format)

(* ------------------------------ properties ----------------------------- *)

Done == pc = "done"
Returned == Done /\ result.k = "return"
ThrewKind(kind) == Done /\ result.k = "throw" /\ ErrorKind(result.m) = kind
Called(f) == \E i \in 1..Len(calls) : calls[i] = f
StartsWith(s, prefix) == Len(s) >= Len(prefix) /\ SubSeq(s, 1, Len(prefix)) = prefix

RECURSIVE SplitLines(_)
\* the lines of a text: the pieces between its newlines
SplitLines(s) ==
  IF \A i \in 1..Len(s) : s[i] # NL THEN <<s>>
  ELSE LET i == CHOOSE i \in 1..Len(s) : s[i] = NL /\ \A j \in 1..(i - 1) : s[j] # NL
       IN <<SubSeq(s, 1, i - 1)>> \o SplitLines(SubSeq(s, i + 1, Len(s)))

\* whether a newline follows the last line of the text
HasFinalNewline(s) == Len(s) > 0 /\ s[Len(s)] = NL

\* the lines after the first and before the footer line
BodyLines(s) ==
  LET lines == SplitLines(s)
  IN SubSeq(lines, 2, Len(lines) - (IF HasFinalNewline(s) THEN 2 ELSE 1))

IsBase64Line(line) ==
  /\ Len(line) > 0
  /\ \A i \in 1..Len(line) :
       line[i] = "=" \/ \E j \in 1..64 : Base64Alphabet[j] = line[i]

\* header line, one or more base64 body lines, matching footer line, one newline
\* after each line except perhaps the footer
WellArmored(s, begin, end) ==
  LET lines == SplitLines(s)
      last == Len(lines) - (IF HasFinalNewline(s) THEN 1 ELSE 0)
  IN /\ last >= 3
     /\ lines[1] = begin
     /\ lines[last] = end
     /\ \A i \in 2..(last - 1) : IsBase64Line(lines[i])

WellArmoredPrivate == key.t = "string" /\ WellArmored(key.s, BeginRsaPrivate, EndRsaPrivate)
WellArmoredPublic == key.t = "string" /\ WellArmored(key.s, BeginPublic, EndPublic)

\* [version, n, e, d, p, q, dp, dq, qi]: at least nine elements, the nine integers
PrivateShape(v) ==
  /\ v.t = "array"
  /\ Len(v.a) >= 9
  /\ \A i \in 1..9 : v.a[i].t = "bigint"

\* [algorithmIdentifier, [[n, e]]]
PublicShape(v) ==
  /\ v.t = "array"
  /\ Len(v.a) = 2
  /\ v.a[2].t = "array"
  /\ Len(v.a[2].a) = 1
  /\ v.a[2].a[1].t = "array"
  /\ Len(v.a[2].a[1].a) = 2
  /\ \A i \in 1..2 : v.a[2].a[1].a[i].t = "bigint"

\* C1: a PEM import whose simplified ASN.1 structure does not have the shape of
\* its key type fails with MalformedStructure and returns no key record.
C1_MalformedStructureRejected ==
  (Done /\ Called("ber_simple"))
    => LET parseKey == DecodePemBody(trimmedKey).v
       IN /\ (Called("rsa_import_pem_private") /\ ~PrivateShape(parseKey))
               => ThrewKind("MalformedStructure")
          /\ (Called("rsa_import_pem_public") /\ ~PublicShape(parseKey))
               => ThrewKind("MalformedStructure")

\* C2: every key record returned has n present and strictly positive and length
\* equal to the bit-length of that n.
C2_ModulusPositiveLengthConsistent ==
  Returned
    => /\ result.v.n.t = "bigint"
       /\ result.v.n.i > 0
       /\ result.v.length = JsNum(BitLength(result.v.n.i))

\* C3: under "auto", the format resolved is jwk exactly for an object whose kty
\* is "RSA" and pem exactly for a string that starts with five dashes; every
\* other input fails with UnsupportedFormat and neither importer is called.
C3_AutoDetection ==
  (format = "auto" /\ pc \notin {"rsa_import_key", "detect_format"})
    => LET jwkShape == key.t = "object" /\ key.kty = JsStr(<<"R", "S", "A">>)
           pemShape == key.t = "string" /\ StartsWith(key.s, <<"-", "-", "-", "-", "-">>)
       IN /\ finalFormat = "jwk" <=> jwkShape
          /\ finalFormat = "pem" <=> pemShape
          /\ (~jwkShape /\ ~pemShape)
               => /\ ThrewKind("UnsupportedFormat")
                  /\ ~Called("rsa_import_jwk")
                  /\ ~Called("rsa_import_pem")

\* an object with kty "EC" imported under "auto" has failed with UnsupportedFormat
C3_Witness ==
  /\ Done
  /\ format = "auto"
  /\ key.t = "object"
  /\ key.kty = JsStr(<<"E", "C">>)
  /\ key.n # Undefined
  /\ ThrewKind("UnsupportedFormat")

\* C4: for an input that detection classifies, the import under "auto" and the
\* import under the format detection resolves end the same way: the same record,
\* or the same failure.
C4_AutoEqualsExplicit ==
  (Done /\ detect_format(key).k = "return")
    => /\ format = "auto" => result = rsa_import_key(key, detect_format(key).v)
       /\ format = detect_format(key).v => result = rsa_import_key(key, "auto")

\* a PEM text imported under "auto" has returned a record
C4_Witness ==
  /\ Returned
  /\ format = "auto"
  /\ key.t = "string"
  /\ finalFormat = "pem"

JwkOptionalFields == {"e", "d", "p", "q", "dp", "dq", "qi"}

\* C5: in a JWK import that succeeds, each of e, d, p, q, dp, dq, qi is present in
\* the record exactly when it is present in the input, and then holds the integer
\* of its base64url-decoded octets.
C5_JwkFieldPresence ==
  (Returned /\ Called("rsa_import_jwk"))
    => \A f \in JwkOptionalFields :
         /\ result.v[f] # Undefined <=> key[f] # Undefined
         /\ key[f] # Undefined
              => result.v[f] = JsInt(os2ip(decode_base64url(key[f].s).v))

\* C6 as claimed: an explicit format that does not match the input's shape fails
\* with MissingField or MalformedStructure, never with another kind.
C6_MismatchNeverUnsupported ==
  (Done /\ (\/ format = "jwk" /\ key.t = "string"
            \/ format = "pem" /\ key.t = "object"))
    => (ThrewKind("MissingField") \/ ThrewKind("MalformedStructure"))

\* C6: an explicit format is used without detection; a string under "jwk" fails
\* in the JWK importer with MissingField, and an object under "pem" fails in the
\* PEM importer's own string test, with UnsupportedFormat.
C6_MismatchFailsInImporter ==
  /\ (Done /\ format = "jwk" /\ key.t = "string")
       => /\ result = Throw("Invalid JWK format")
          /\ ThrewKind("MissingField")
          /\ calls = <<"rsa_import_key", "rsa_import_jwk">>
  /\ (Done /\ format = "pem" /\ key.t = "object")
       => /\ result = Throw("PEM key must be string")
          /\ ThrewKind("UnsupportedFormat")
          /\ calls = <<"rsa_import_key", "rsa_import_pem">>

\* both mismatches have been imported: a PEM text under "jwk" or an RSA JWK
\* under "pem"
C6_Witness ==
  /\ Done
  /\ \/ format = "jwk" /\ key.t = "string" /\ StartsWith(key.s, BeginPublic)
     \/ format = "pem" /\ key.t = "object" /\ key.kty = JsStr(<<"R", "S", "A">>)
                       /\ Truthy(key.n)

\* C7: in every key record returned, dp, dq or qi present implies p and q present.
C7_CrtFieldsOnlyWithPrimes ==
  Returned
    => ((\E f \in {"dp", "dq", "qi"} : result.v[f] # Undefined)
          => (result.v.p # Undefined /\ result.v.q # Undefined))

\* C8: the PEM importer takes the private-key path exactly for a string that
\* starts with the RSA PRIVATE KEY header and the public-key path exactly for one
\* that starts with the PUBLIC KEY header; anything else fails with
\* UnsupportedFormat and no decoder is invoked.
C8_PemPathSelection ==
  (Called("rsa_import_pem") /\ pc # "rsa_import_pem")
    => LET private == key.t = "string" /\ StartsWith(key.s, BeginRsaPrivate)
           public == key.t = "string" /\ StartsWith(key.s, BeginPublic)
       IN /\ Called("rsa_import_pem_private") <=> private
          /\ Called("rsa_import_pem_public") <=> public
          /\ (~private /\ ~public)
               => /\ ThrewKind("UnsupportedFormat")
                  /\ \A f \in {"base64_to_binary", "ber_decode", "ber_simple"} : ~Called(f)

\* a PKCS#8 text that came through "auto" detection has failed in the PEM importer
C8_Witness ==
  /\ Done
  /\ format = "auto"
  /\ key.t = "string"
  /\ StartsWith(key.s, BeginPkcs8)
  /\ Called("rsa_import_pem")
  /\ result = Throw("Unsupported key format")

\* the structure that the body lines of a PEM text decode to
BodyStructure(s) == DecodePemBody(Flatten(BodyLines(s)))

\* C9: a PUBLIC KEY PEM whose body decodes to [algorithmIdentifier, [[n, e]]]
\* yields n and e of the inner pair, length the bit-length of n, and no d, p, q,
\* dp, dq, qi.
C9_PublicKeyRecord ==
  (Done /\ Called("rsa_import_pem_public") /\ WellArmoredPublic
     /\ BodyStructure(key.s).k = "return" /\ PublicShape(BodyStructure(key.s).v))
    => LET pair == BodyStructure(key.s).v.a[2].a[1].a
       IN result = Return([n |-> pair[1], e |-> pair[2],
                           length |-> JsNum(BitLength(pair[1].i)),
                           d |-> Undefined, p |-> Undefined, q |-> Undefined,
                           dp |-> Undefined, dq |-> Undefined, qi |-> Undefined])

\* a PUBLIC KEY PEM of n = 2, e = 1 has been imported
C9_Witness ==
  /\ Returned
  /\ Called("rsa_import_pem_public")
  /\ WellArmoredPublic
  /\ PublicShape(BodyStructure(key.s).v)
  /\ result.v.n = JsInt(2)
  /\ result.v.e = JsInt(1)
  /\ result.v.length = JsNum(2)

RECURSIVE JoinLines(_)
\* lines joined, a newline before each
JoinLines(lines) ==
  IF lines = <<>> THEN <<>> ELSE <<NL>> \o Head(lines) \o JoinLines(Tail(lines))

\* a PEM path has cut the body out of a well-armored text of its key type
TrimmedWellArmored ==
  /\ Done
  /\ \/ Called("rsa_import_pem_private") /\ WellArmoredPrivate
     \/ Called("rsa_import_pem_public") /\ WellArmoredPublic

\* C10 as claimed: the text handed to the base64 decoder is exactly the body
\* lines' characters: no newline, no header or footer character, none dropped.
C10_DecoderGetsBodyOnly ==
  TrimmedWellArmored => trimmedKey = Flatten(BodyLines(key.s))

\* C10: the text handed to the base64 decoder is the body lines in order, each
\* preceded by its newline, followed by one more newline when a newline follows
\* the footer; without its newlines it is exactly the body lines' characters.
C10_DecoderGetsBodyWithNewlines ==
  TrimmedWellArmored
    => /\ trimmedKey = JoinLines(BodyLines(key.s))
                         \o (IF HasFinalNewline(key.s) THEN <<NL>> ELSE <<>>)
       /\ Without(trimmedKey, NL) = Flatten(BodyLines(key.s))

\* a private-key text of several body lines and no final newline has been cut
C10_Witness ==
  /\ TrimmedWellArmored
  /\ Called("rsa_import_pem_private")
  /\ Len(BodyLines(key.s)) >= 2
  /\ ~HasFinalNewline(key.s)
  /\ Returned

====
